---- MODULE Spec2Model ----
(***************************************************************************)
(* A model of the college chatbot: the text normaliser of the serving app  *)
(* (app.py) and of the offline builder (build_vector.py), the retriever,   *)
(* the Gemini fallback responder, the chat turn of main(), and the build   *)
(* script that writes faiss_store/index.faiss and faiss_store/data.pkl.    *)
(*                                                                         *)
(* Text is a sequence of one-character strings, so that lower(), strip(),  *)
(* the regular-expression substitutions and slicing are computed character *)
(* by character as Python computes them.                                   *)
(***************************************************************************)
EXTENDS Integers, Sequences, FiniteSets, TLC

VARIABLES
    text,       \* normaliser run: the input string
    norm,       \* normaliser run: app.normalize_text(text)
    norm2,      \* normaliser run: app.normalize_text(norm)
    bnorm,      \* normaliser run: build_vector.normalize_text(text)
    nstage,     \* normaliser run: which of the above have been computed
    csv_file,   \* storage: data/college_knowledge.csv
    index_faiss, \* storage: faiss_store/index.faiss
    data_pkl,   \* storage: faiss_store/data.pkl
    embedder,   \* the all-MiniLM-L6-v2 encoder: normalised text -> vector
    bpc,        \* build_vector.py: the statement the script is at
    run,        \* build_vector.py: number of the current run of the script
    df,         \* build_vector.py: the data frame
    embeddings, \* build_vector.py: the encoded questions
    index,      \* build_vector.py: the in-memory IndexFlatL2
    resources,  \* app.py: what load_resources() returned (cached)
    messages,   \* app.py: st.session_state.messages, the transcript
    token_count, \* app.py: st.session_state.token_count
    last        \* app.py: what the last chat turn called and got back

normVars == <<text, norm, norm2, bnorm, nstage>>
storeVars == <<csv_file, index_faiss, data_pkl>>
buildVars == <<embedder, bpc, run, df, embeddings, index>>
serveVars == <<resources, messages, token_count, last>>
vars == <<normVars, storeVars, buildVars, serveVars>>

-----------------------------------------------------------------------------
(* Bounds *)

\* an input of the normaliser run is a concatenation of at most MaxPieces pieces
MaxPieces == 3
\* rows of a source table or of a stored artifact
MaxRows == 2
\* runs of the build script in one behaviour
MaxBuilds == 2
\* dimension of the embedding vectors (384 for all-MiniLM-L6-v2)
Dim == 4
\* largest coordinate of an embedding vector
MaxCoord == 2
\* chat turns in one session
MaxTurns == 1
\* whitespace the model may put before and after its text
MaxPad == 1
\* characters by which a model text may exceed the cap of gemini_response
MaxExtra == 2

-----------------------------------------------------------------------------
(* Characters and Python's string primitives *)

UpperCase == <<"A", "B", "C", "D", "E", "F", "G", "H", "I", "J", "K", "L", "M",
               "N", "O", "P", "Q", "R", "S", "T", "U", "V", "W", "X", "Y", "Z">>
LowerCase == <<"a", "b", "c", "d", "e", "f", "g", "h", "i", "j", "k", "l", "m",
               "n", "o", "p", "q", "r", "s", "t", "u", "v", "w", "x", "y", "z">>
Digits == {"0", "1", "2", "3", "4", "5", "6", "7", "8", "9"}

\* the characters \s matches and str.strip() removes
WhiteSpace == {" ", "\t", "\n"}

Range(s) == {s[i] : i \in DOMAIN s}

\* the characters \w matches: letters, digits and the underscore
WordChars == Range(UpperCase) \cup Range(LowerCase) \cup Digits \cup {"_"}

IsWord(c) == c \in WordChars

IsSpace(c) == c \in WhiteSpace

\* str.lower() on one character
ToLower(c) ==
    IF \E i \in DOMAIN UpperCase : UpperCase[i] = c
    THEN LowerCase[CHOOSE i \in DOMAIN UpperCase : UpperCase[i] = c]
    ELSE c

\* str.lower()
lower(s) == [i \in DOMAIN s |-> ToLower(s[i])]

\* str.strip(): drop the leading and the trailing whitespace
RECURSIVE FirstKept(_, _)
FirstKept(s, i) ==
    IF i > Len(s) THEN i ELSE IF IsSpace(s[i]) THEN FirstKept(s, i + 1) ELSE i

RECURSIVE LastKept(_, _)
LastKept(s, i) ==
    IF i < 1 THEN 0 ELSE IF IsSpace(s[i]) THEN LastKept(s, i - 1) ELSE i

strip(s) == SubSeq(s, FirstKept(s, 1), LastKept(s, Len(s)))

\* needle in haystack (Python's substring test)
Contains(haystack, needle) ==
    \E p \in 0..(Len(haystack) - Len(needle)) :
        SubSeq(haystack, p + 1, p + Len(needle)) = needle

-----------------------------------------------------------------------------
(* Regular expressions used by the normalisers *)

\* re.sub(r'[^\w\s]', '', s): delete every character that is neither \w nor \s
RemovePunctuation(s) == SelectSeq(s, LAMBDA c : IsWord(c) \/ IsSpace(c))

\* \b at offset p (between s[p] and s[p+1]): exactly one side is a \w character
WordBoundary(s, p) ==
    LET before == p >= 1 /\ p <= Len(s) /\ IsWord(s[p])
        after  == p + 1 >= 1 /\ p + 1 <= Len(s) /\ IsWord(s[p + 1])
    IN  before /= after

\* alternative alt of \b(...)\b matches at offset p
AltMatches(s, p, alt) ==
    /\ p + Len(alt) <= Len(s)
    /\ SubSeq(s, p + 1, p + Len(alt)) = alt
    /\ WordBoundary(s, p)
    /\ WordBoundary(s, p + Len(alt))

\* length of the match of \b(alts[1]|alts[2]|...)\b at offset p, 0 when none:
\* the alternatives are tried in order and the first that matches wins
MatchLen(s, p, alts) ==
    LET hits == {k \in DOMAIN alts : AltMatches(s, p, alts[k])}
    IN  IF hits = {} THEN 0
        ELSE Len(alts[CHOOSE k \in hits : \A j \in hits : k <= j])

\* re.sub(r'\b(alts)\b', repl, s): left to right, matches do not overlap and the
\* replacement text is not scanned again
RECURSIVE SubFrom(_, _, _, _)
SubFrom(s, p, alts, repl) ==
    IF p >= Len(s) THEN <<>>
    ELSE LET n == MatchLen(s, p, alts)
         IN  IF n > 0 THEN repl \o SubFrom(s, p + n, alts, repl)
             ELSE <<s[p + 1]>> \o SubFrom(s, p + 1, alts, repl)

SubWords(alts, repl, s) == SubFrom(s, 0, alts, repl)

\* re.sub(r'\s+', ' ', s): every run of whitespace becomes one space
RECURSIVE CollapseFrom(_, _)
CollapseFrom(s, i) ==
    IF i > Len(s) THEN <<>>
    ELSE IF IsSpace(s[i])
         THEN IF i > 1 /\ IsSpace(s[i - 1]) THEN CollapseFrom(s, i + 1)
              ELSE <<" ">> \o CollapseFrom(s, i + 1)
         ELSE <<s[i]>> \o CollapseFrom(s, i + 1)

CollapseSpaces(s) == CollapseFrom(s, 1)

-----------------------------------------------------------------------------
(* The synonym tables *)

w_hi == <<"h", "i">>
w_hello == <<"h", "e", "l", "l", "o">>
w_hey == <<"h", "e", "y">>
w_hlw == <<"h", "l", "w">>
w_hii == <<"h", "i", "i">>
w_greetings == <<"g", "r", "e", "e", "t", "i", "n", "g", "s">>
w_greeting == <<"g", "r", "e", "e", "t", "i", "n", "g">>
w_courses == <<"c", "o", "u", "r", "s", "e", "s">>
w_course == <<"c", "o", "u", "r", "s", "e">>
w_programs == <<"p", "r", "o", "g", "r", "a", "m", "s">>
w_program == <<"p", "r", "o", "g", "r", "a", "m">>
w_degrees == <<"d", "e", "g", "r", "e", "e", "s">>
w_degree == <<"d", "e", "g", "r", "e", "e">>
w_admission == <<"a", "d", "m", "i", "s", "s", "i", "o", "n">>
w_apply == <<"a", "p", "p", "l", "y">>
w_application == <<"a", "p", "p", "l", "i", "c", "a", "t", "i", "o", "n">>
w_hostel == <<"h", "o", "s", "t", "e", "l">>
w_dorm == <<"d", "o", "r", "m">>
w_stay == <<"s", "t", "a", "y">>
w_accommodation == <<"a", "c", "c", "o", "m", "m", "o", "d", "a", "t", "i", "o", "n">>
w_placement == <<"p", "l", "a", "c", "e", "m", "e", "n", "t">>
w_jobs == <<"j", "o", "b", "s">>
w_job == <<"j", "o", "b">>
w_recruitment == <<"r", "e", "c", "r", "u", "i", "t", "m", "e", "n", "t">>
w_contact == <<"c", "o", "n", "t", "a", "c", "t">>
w_phone == <<"p", "h", "o", "n", "e">>
w_email == <<"e", "m", "a", "i", "l">>
w_address == <<"a", "d", "d", "r", "e", "s", "s">>

\* app.py: (hi|hello|hey|hlw|hii|greetings?); x? is greedy, so "xs" is tried first
GreetingAlts == <<w_hi, w_hello, w_hey, w_hlw, w_hii, w_greetings, w_greeting>>
\* (courses?|programs?|degrees?), the same in both files
ProgramsAlts == <<w_courses, w_course, w_programs, w_program, w_degrees, w_degree>>
\* (admission|apply|application), the same in both files
AdmissionAlts == <<w_admission, w_apply, w_application>>
\* app.py: (hostel|dorm|stay)
HostelAlts == <<w_hostel, w_dorm, w_stay>>
\* build_vector.py: (hostel|dorm|accommodation)
BuildHostelAlts == <<w_hostel, w_dorm, w_accommodation>>
\* build_vector.py: (placement|jobs?|recruitment)
PlacementAlts == <<w_placement, w_jobs, w_job, w_recruitment>>
\* build_vector.py: (contact|phone|email|address)
ContactAlts == <<w_contact, w_phone, w_email, w_address>>

-----------------------------------------------------------------------------
(* The two normalisers *)

\* text.lower().strip() of app.py
LowerStrip(s) == strip(lower(s))

\* app.py normalize_text
normalize_text(s) ==
    LET t1 == LowerStrip(s)
        t2 == RemovePunctuation(t1)
        t3 == SubWords(GreetingAlts, w_greeting, t2)
        t4 == SubWords(ProgramsAlts, w_programs, t3)
        t5 == SubWords(AdmissionAlts, w_admission, t4)
        t6 == SubWords(HostelAlts, w_hostel, t5)
    IN  CollapseSpaces(t6)

\* a value that is not a str (pandas' NaN for a missing cell)
NaN == [t |-> "nan", v |-> <<>>]
None == [t |-> "none", v |-> <<>>]
Str(s) == [t |-> "str", v |-> s]

\* build_vector.py normalize_text: takes any value, returns a string
build_normalize_text(x) ==
    IF x.t /= "str" THEN <<>>
    ELSE LET t1 == lower(x.v)
             t2 == RemovePunctuation(t1)
             t3 == SubWords(ProgramsAlts, w_programs, t2)
             t4 == SubWords(AdmissionAlts, w_admission, t3)
             t5 == SubWords(BuildHostelAlts, w_hostel, t4)
             t6 == SubWords(PlacementAlts, w_placement, t5)
             t7 == SubWords(ContactAlts, w_contact, t6)
         IN  strip(CollapseSpaces(t7))

-----------------------------------------------------------------------------
(* The normaliser run: one input, normalised by both normalisers *)

Pieces == {w_hi, <<"H", "e", "y">>, w_hello, w_stay, w_jobs, w_courses,
           <<"f", "i">>, <<"_">>, <<" ">>, <<"\t">>, <<".">>, <<"-">>}

RECURSIVE Concats(_)
Concats(n) ==
    IF n = 0 THEN {<<>>}
    ELSE LET shorter == Concats(n - 1)
         IN  shorter \cup {s \o p : s \in shorter, p \in Pieces}

Inputs == Concats(MaxPieces)

\* a file that is not there
MissingFile == [state |-> "missing", rows |-> <<>>]
MissingIndex == [state |-> "missing", run |-> 0, vectors |-> <<>>]
MissingData == [state |-> "missing", run |-> 0, keys |-> {}, answers |-> <<>>]

\* None under resources['index'] and resources['data']
NoIndex == [t |-> "none", vectors |-> <<>>]
NoData == [t |-> "none", keys |-> {}, answers |-> <<>>]

\* the encoder was not called; the model was not called
NotEncoded == [kind |-> "none", v |-> <<>>]
NotCalled == [kind |-> "none", text |-> <<>>]

\* load_resources() has not run yet
Unloaded ==
    [loaded |-> FALSE, index |-> NoIndex, data |-> NoData,
     embedder |-> FALSE, gemini_model |-> FALSE]

\* no call has been made yet
NoTurn ==
    [kind |-> "none", query |-> <<>>, kb |-> None, encoded |-> NotEncoded,
     searched |-> FALSE, D |-> 0, I |-> -1, fallback |-> FALSE,
     outcome |-> NotCalled, model_calls |-> 0, response |-> None, crashed |-> FALSE]

NormIdle ==
    /\ text = <<>>
    /\ norm = <<>>
    /\ norm2 = <<>>
    /\ bnorm = <<>>
    /\ nstage = "idle"

StoreIdle ==
    /\ csv_file = MissingFile
    /\ index_faiss = MissingIndex
    /\ data_pkl = MissingData

BuildIdle ==
    /\ embedder = <<>>
    /\ bpc = "idle"
    /\ run = 0
    /\ df = <<>>
    /\ embeddings = <<>>
    /\ index = <<>>

ServeIdle ==
    /\ resources = Unloaded
    /\ messages = <<>>
    /\ token_count = 0
    /\ last = NoTurn

NormInit ==
    /\ text \in Inputs
    /\ norm = <<>>
    /\ norm2 = <<>>
    /\ bnorm = <<>>
    /\ nstage = "input"
    /\ StoreIdle
    /\ BuildIdle
    /\ ServeIdle

ServeNormalize ==
    /\ nstage = "input"
    /\ norm' = normalize_text(text)
    /\ nstage' = "served"
    /\ UNCHANGED <<text, norm2, bnorm, storeVars, buildVars, serveVars>>

ServeRenormalize ==
    /\ nstage = "served"
    /\ norm2' = normalize_text(norm)
    /\ nstage' = "reserved"
    /\ UNCHANGED <<text, norm, bnorm, storeVars, buildVars, serveVars>>

BuildNormalize ==
    /\ nstage = "reserved"
    /\ bnorm' = build_normalize_text(Str(text))
    /\ nstage' = "built"
    /\ UNCHANGED <<text, norm, norm2, storeVars, buildVars, serveVars>>

NormNext == ServeNormalize \/ ServeRenormalize \/ BuildNormalize

NormSpec == NormInit /\ [][NormNext]_vars

-----------------------------------------------------------------------------
(* Embedding vectors and the flat L2 index *)

\* a vector with first coordinate a and every other coordinate b
Vec(a, b) == [i \in 1..Dim |-> IF i = 1 THEN a ELSE b]

\* the vectors the encoder can return
EmbeddingSpace == {Vec(0, 0), Vec(0, 1), Vec(MaxCoord, 1), Vec(MaxCoord + 1, 1)}

RECURSIVE SumSq(_, _, _)
SumSq(a, b, i) ==
    IF i > Len(a) THEN 0 ELSE (a[i] - b[i]) * (a[i] - b[i]) + SumSq(a, b, i + 1)

\* IndexFlatL2's metric: the squared Euclidean distance, here in tenths
L2(a, b) == SumSq(a, b, 1)

-----------------------------------------------------------------------------
(* build_vector.py: the offline build *)

q_admission == <<"W", "h", "a", "t", " ", "a", "r", "e", " ", "t", "h", "e", " ",
                 "a", "d", "m", "i", "s", "s", "i", "o", "n", " ",
                 "r", "e", "q", "u", "i", "r", "e", "m", "e", "n", "t", "s", "?">>
q_jobs == <<"J", "o", "b", "s", "?">>
a_one == <<"a", "1">>
a_two == <<"a", "2">>

Row(q, a) == [question |-> q, answer |-> a, normalized |-> <<>>]

\* sample_data of load_or_create_dataset, cut to its first and its last row (the
\* row with the empty question); the seven rows between differ only in their text
SampleData == <<Row(Str(q_admission), Str(a_one)), Row(Str(<<>>), Str(a_two))>>

\* a cell as DataFrame.to_csv writes it and read_csv reads it back: an empty
\* string comes back as a missing value
CsvCell(x) == IF x = Str(<<>>) THEN NaN ELSE x

ToCsv(rows) ==
    [i \in DOMAIN rows |-> Row(CsvCell(rows[i].question), CsvCell(rows[i].answer))]

\* Series.fillna("")
FillNa(x) == IF x = NaN THEN Str(<<>>) ELSE x

\* the cells a source table on disk can hold
CsvQuestions == {NaN, Str(q_jobs)}
CsvAnswers == {NaN, Str(a_one)}

RECURSIVE SeqsUpTo(_, _)
SeqsUpTo(S, n) ==
    IF n = 0 THEN {<<>>}
    ELSE LET shorter == SeqsUpTo(S, n - 1)
         IN  shorter \cup {Append(s, x) : s \in {t \in shorter : Len(t) = n - 1}, x \in S}

CsvTables == SeqsUpTo({Row(q, a) : q \in CsvQuestions, a \in CsvAnswers}, MaxRows)

\* every normalised question a build can hand to the encoder
BuildTexts ==
    {build_normalize_text(FillNa(q)) : q \in CsvQuestions}
        \cup {build_normalize_text(SampleData[i].question) : i \in DOMAIN SampleData}

DataKeys == {"questions", "answers", "departments", "keywords"}

BuildInit ==
    /\ NormIdle
    /\ ServeIdle
    /\ csv_file \in {MissingFile} \cup {[state |-> "ok", rows |-> t] : t \in CsvTables}
    /\ index_faiss = MissingIndex
    /\ data_pkl = MissingData
    /\ embedder \in [BuildTexts -> EmbeddingSpace]
    /\ bpc = "idle"
    /\ run = 0
    /\ df = <<>>
    /\ embeddings = <<>>
    /\ index = <<>>

\* python build_vector.py
StartBuild ==
    /\ bpc \in {"idle", "done", "aborted"}
    /\ run < MaxBuilds
    /\ run' = run + 1
    /\ bpc' = "load"
    /\ df' = <<>>
    /\ embeddings' = <<>>
    /\ index' = <<>>
    /\ UNCHANGED <<normVars, serveVars, storeVars, embedder>>

\* df = load_or_create_dataset()
LoadOrCreateDataset ==
    /\ bpc = "load"
    /\ IF csv_file.state = "missing"
       THEN /\ df' = SampleData
            /\ csv_file' = [state |-> "ok", rows |-> ToCsv(SampleData)]
       ELSE /\ df' = csv_file.rows
            /\ UNCHANGED csv_file
    /\ bpc' = "clean"
    /\ UNCHANGED <<normVars, serveVars, index_faiss, data_pkl, embedder, run, embeddings, index>>

\* df.to_csv fails: the script dies before anything else is written
CsvUnwritable ==
    /\ bpc = "load"
    /\ csv_file.state = "missing"
    /\ bpc' = "aborted"
    /\ UNCHANGED <<normVars, serveVars, storeVars, embedder, run, df, embeddings, index>>

\* df["question"].fillna(""), then df["normalized"] = ...apply(normalize_text)
CleanAndNormalize ==
    /\ bpc = "clean"
    /\ df' = [i \in DOMAIN df |->
                [question |-> FillNa(df[i].question),
                 answer |-> df[i].answer,
                 normalized |-> build_normalize_text(FillNa(df[i].question))]]
    /\ bpc' = "embed"
    /\ UNCHANGED <<normVars, serveVars, storeVars, embedder, run, embeddings, index>>

\* an encoder call that leaves out the empty strings
Encode_SkipEmpty(texts) ==
    LET kept == SelectSeq(texts, LAMBDA t : t /= <<>>)
    IN  [i \in DOMAIN kept |-> embedder[kept[i]]]

\* model.encode(df["normalized"].tolist())
Encode(texts) == [i \in DOMAIN texts |-> embedder[texts[i]]]

\* model = SentenceTransformer(...); embeddings = model.encode(...)
GenerateEmbeddings ==
    /\ bpc = "embed"
    /\ embeddings' = Encode([i \in DOMAIN df |-> df[i].normalized])
    /\ bpc' = "index"
    /\ UNCHANGED <<normVars, serveVars, storeVars, embedder, run, df, index>>

\* the embedding model cannot be loaded, or encode raises
ModelUnavailable ==
    /\ bpc = "embed"
    /\ bpc' = "aborted"
    /\ UNCHANGED <<normVars, serveVars, storeVars, embedder, run, df, embeddings, index>>

\* index = faiss.IndexFlatL2(embeddings.shape[1]); index.add(embeddings);
\* faiss.write_index(index, "faiss_store/index.faiss").  With no rows the array
\* has no second axis and embeddings.shape[1] raises
CreateAndSaveIndex ==
    /\ bpc = "index"
    /\ IF Len(embeddings) = 0
       THEN /\ bpc' = "aborted"
            /\ UNCHANGED <<index, index_faiss>>
       ELSE /\ index' = embeddings
            /\ index_faiss' = [state |-> "ok", run |-> run, vectors |-> embeddings]
            /\ bpc' = "save"
    /\ UNCHANGED <<normVars, serveVars, csv_file, data_pkl, embedder, run, df, embeddings>>

\* faiss.write_index raises: faiss_store/index.faiss cannot be written
IndexUnwritable ==
    /\ bpc = "index"
    /\ Len(embeddings) > 0
    /\ index' = embeddings
    /\ bpc' = "aborted"
    /\ UNCHANGED <<normVars, serveVars, storeVars, embedder, run, df, embeddings>>

\* the dictionary pickled into data.pkl
KnowledgeData ==
    [state |-> "ok", run |-> run, keys |-> DataKeys,
     answers |-> [i \in DOMAIN df |-> df[i].answer]]

\* with open("faiss_store/data.pkl", "wb") as f: pickle.dump({...}, f)
SaveKnowledgeData ==
    /\ bpc = "save"
    /\ data_pkl' = KnowledgeData
    /\ bpc' = "done"
    /\ UNCHANGED <<normVars, serveVars, csv_file, index_faiss, embedder, run, df, embeddings, index>>

\* open(..., "wb") raises: data.pkl is left as it was
DataUnwritable ==
    /\ bpc = "save"
    /\ bpc' = "aborted"
    /\ UNCHANGED <<normVars, serveVars, storeVars, embedder, run, df, embeddings, index>>

\* pickle.dump raises after open(..., "wb") truncated the file
DumpFails ==
    /\ bpc = "save"
    /\ data_pkl' = [state |-> "truncated", run |-> run, keys |-> {}, answers |-> <<>>]
    /\ bpc' = "aborted"
    /\ UNCHANGED <<normVars, serveVars, csv_file, index_faiss, embedder, run, df, embeddings, index>>

BuildNext ==
    \/ StartBuild
    \/ LoadOrCreateDataset
    \/ CsvUnwritable
    \/ CleanAndNormalize
    \/ GenerateEmbeddings
    \/ ModelUnavailable
    \/ CreateAndSaveIndex
    \/ IndexUnwritable
    \/ SaveKnowledgeData
    \/ DataUnwritable
    \/ DumpFails

BuildSpec == BuildInit /\ [][BuildNext]_vars

-----------------------------------------------------------------------------
(* app.py: configuration and Python values *)

\* CONTACT_INFO (its non-breaking hyphen written as "-")
CONTACT_INFO == <<"+", "9", "1", "-", "9", "8", "7", "6", "5", "4", "3", "2", "1", "0",
                  " ", "|", " ", "i", "n", "f", "o", "@", "s", "i", "t", "t", "e", "c",
                  "h", ".", "e", "d", "u", ".", "i", "n">>

\* "Hi! How can I help you today?"
GreetingText == <<"H", "i", "!", " ", "H", "o", "w", " ", "c", "a", "n", " ", "I", " ",
                  "h", "e", "l", "p", " ", "y", "o", "u", " ", "t", "o", "d", "a", "y", "?">>

\* the first assistant message of a session
WelcomeText == <<
    "H", "i", "!", " ", "I", "'", "m", " ", "t", "h", "e", " ", "S", "i",
    "l", "i", "g", "u", "r", "i", " ", "I", "n", "s", "t", "i", "t", "u",
    "t", "e", " ", "o", "f", " ", "T", "e", "c", "h", "n", "o", "l", "o",
    "g", "y", " ", "a", "s", "s", "i", "s", "t", "a", "n", "t", ".", " ",
    "A", "s", "k", " ", "m", "e", " ", "a", "b", "o", "u", "t", ":", "\n",
    "-", " ", "C", "o", "u", "r", "s", "e", "s", "\n", "-", " ", "A", "d",
    "m", "i", "s", "s", "i", "o", "n", "\n", "-", " ", "H", "o", "s", "t",
    "e", "l", "\n", "-", " ", "P", "l", "a", "c", "e", "m", "e", "n", "t",
    "s", "\n", "-", " ", "C", "o", "n", "t", "a", "c", "t" >>

\* good-match threshold of get_knowledge_response, 0.7, in tenths
Threshold == 7

\* the slice [:300] of gemini_response
MaxChars == 300

\* the distance faiss reports when the index has no neighbour to offer (FLT_MAX)
NoNeighbour == Threshold * 1000

\* bool(x) of a value that is None, a str or NaN
PyTruthy(x) ==
    CASE x.t = "none" -> FALSE
      [] x.t = "str" -> x.v /= <<>>
      [] OTHER -> TRUE

\* the objects load_resources can put under 'index' and 'data'
IndexObj(vs) == [t |-> "index", vectors |-> vs]
DictObj(keys, answers) == [t |-> "dict", keys |-> keys, answers |-> answers]

\* bool(resources['index']): a faiss index object is always true
IndexTruthy(ix) == ix.t = "index"

\* bool(resources['data']): None and the empty dict are false
DataTruthy(d) == d.t = "dict" /\ d.keys /= {}

\* s[:n]
Take(s, n) == SubSeq(s, 1, IF Len(s) < n THEN Len(s) ELSE n)

\* len(s.split()): the number of maximal runs of non-whitespace
WordCount(s) ==
    Cardinality({i \in DOMAIN s : ~IsSpace(s[i]) /\ (i = 1 \/ IsSpace(s[i - 1]))})

-----------------------------------------------------------------------------
(* app.py: load_resources *)

\* load_resources(): index and data are read in one try block, so a failure of
\* either read leaves both None; haveEmbedder and haveModel say whether the encoder
\* and the Gemini handle could be constructed
load_resources(haveEmbedder, haveModel) ==
    LET readable == index_faiss.state = "ok" /\ data_pkl.state = "ok"
    IN  [loaded |-> TRUE,
         index |-> IF readable THEN IndexObj(index_faiss.vectors) ELSE NoIndex,
         data |-> IF readable THEN DictObj(data_pkl.keys, data_pkl.answers) ELSE NoData,
         embedder |-> haveEmbedder,
         gemini_model |-> haveModel]

-----------------------------------------------------------------------------
(* app.py: get_knowledge_response *)

\* what resources['embedder'].encode([norm]) can do: return a vector, return an
\* array of another shape, or raise
Encoded(v) == [kind |-> "vec", v |-> v]
EncodeRaises == [kind |-> "raise", v |-> <<>>]
EncodeMalformed == [kind |-> "malformed", v |-> <<>>]
EncodeOutcomes == {Encoded(v) : v \in EmbeddingSpace} \cup {EncodeRaises, EncodeMalformed}

\* D[0][0] of index.search(vec, k=1)
NearestDistance(vectors, v) ==
    IF vectors = <<>> THEN NoNeighbour
    ELSE LET ds == {L2(vectors[i], v) : i \in DOMAIN vectors}
         IN  CHOOSE d \in ds : \A e \in ds : d <= e

\* the values I[0][0] can take: -1 when there is no neighbour, else the 0-based
\* position of a vector at the nearest distance
NearestPositions(vectors, v) ==
    IF vectors = <<>> THEN {-1}
    ELSE {i - 1 : i \in {j \in DOMAIN vectors : L2(vectors[j], v) = NearestDistance(vectors, v)}}

\* the values I[0][0] can take when the encoder's outcome is enc
SearchPositions(res, enc) ==
    IF enc.kind = "vec" THEN NearestPositions(res.index.vectors, enc.v) ELSE {-1}

\* seq[i] is defined in Python: 0-based, negative positions count from the end
PyInRange(seq, i) == i < Len(seq) /\ i >= 0 - Len(seq)
PyIndex(seq, i) == IF i >= 0 THEN seq[i + 1] ELSE seq[Len(seq) + i + 1]

KbResult(ret, encoded, searched, D, I) ==
    [ret |-> ret, encoded |-> encoded, searched |-> searched, D |-> D, I |-> I]

\* VectorSearch accepting a distance equal to the threshold
VectorSearch_AcceptsThreshold(res, enc, I) ==
    IF enc.kind = "raise" THEN KbResult(None, enc, FALSE, 0, -1)
    ELSE IF enc.kind = "malformed" THEN KbResult(None, enc, TRUE, 0, -1)
    ELSE LET D == NearestDistance(res.index.vectors, enc.v)
         IN  IF D <= Threshold /\ "answers" \in res.data.keys /\ PyInRange(res.data.answers, I)
             THEN KbResult(PyIndex(res.data.answers, I), enc, TRUE, D, I)
             ELSE KbResult(None, enc, TRUE, D, I)

\* the try block of get_knowledge_response: encode, search, threshold, lookup;
\* every exception ends in the except clause and the function returns None
VectorSearch(res, enc, I) ==
    IF enc.kind = "raise" THEN KbResult(None, enc, FALSE, 0, -1)
    ELSE IF enc.kind = "malformed" THEN KbResult(None, enc, TRUE, 0, -1)
    ELSE LET D == NearestDistance(res.index.vectors, enc.v)
         IN  IF D < Threshold
             THEN IF "answers" \in res.data.keys /\ PyInRange(res.data.answers, I)
                  THEN KbResult(PyIndex(res.data.answers, I), enc, TRUE, D, I)
                  ELSE KbResult(None, enc, TRUE, D, I)
             ELSE KbResult(None, enc, TRUE, D, I)

\* get_knowledge_response with the greeting test after the vector search
get_knowledge_response_SearchFirst(query, res, enc, I) ==
    IF ~DataTruthy(res.data) THEN KbResult(None, NotEncoded, FALSE, 0, -1)
    ELSE LET found == IF res.embedder /\ IndexTruthy(res.index)
                      THEN VectorSearch(res, enc, I)
                      ELSE KbResult(None, NotEncoded, FALSE, 0, -1)
         IN  IF found.ret /= None THEN found
             ELSE IF Contains(normalize_text(query), w_greeting)
                  THEN KbResult(Str(GreetingText), found.encoded, found.searched,
                                found.D, found.I)
                  ELSE found

\* get_knowledge_response(query, resources), with the encoder's outcome enc and
\* the position I the search reports
get_knowledge_response(query, res, enc, I) ==
    IF ~DataTruthy(res.data) THEN KbResult(None, NotEncoded, FALSE, 0, -1)
    ELSE LET norm_ == normalize_text(query)
         IN  IF Contains(norm_, w_greeting)
             THEN KbResult(Str(GreetingText), NotEncoded, FALSE, 0, -1)
             ELSE IF res.embedder /\ IndexTruthy(res.index)
                  THEN VectorSearch(res, enc, I)
                  ELSE KbResult(None, NotEncoded, FALSE, 0, -1)

-----------------------------------------------------------------------------
(* app.py: gemini_response *)

\* f"Please contact us: {CONTACT_INFO}"
NoModelReply == <<"P", "l", "e", "a", "s", "e", " ", "c", "o", "n", "t", "a", "c", "t",
                  " ", "u", "s", ":", " ">> \o CONTACT_INFO

\* f"Please contact: {CONTACT_INFO}"
ErrorReply == <<"P", "l", "e", "a", "s", "e", " ", "c", "o", "n", "t", "a", "c", "t",
                ":", " ">> \o CONTACT_INFO

\* what model.generate_content(...) followed by response.text can do
ModelRaises == [kind |-> "raise", text |-> <<>>]
ModelText(t) == [kind |-> "text", text |-> t]

Fill(c, n) == [i \in 1..n |-> c]

ModelTexts ==
    {Fill(" ", pad) \o Fill("x", n) \o Fill("\n", pad) :
        pad \in {0, MaxPad}, n \in {0, MaxChars - 1, MaxChars + MaxExtra}}

ModelOutcomes == {ModelRaises} \cup {ModelText(t) : t \in ModelTexts}

GeminiResult(ret, outcome, calls) == [ret |-> ret, outcome |-> outcome, calls |-> calls]

\* gemini_response without the slice [:300]
gemini_response_Uncut(query, model, outcome) ==
    IF ~model THEN GeminiResult(Str(NoModelReply), NotCalled, 0)
    ELSE IF outcome.kind = "text"
         THEN GeminiResult(Str(strip(outcome.text)), outcome, 1)
         ELSE GeminiResult(Str(ErrorReply), outcome, 1)

\* gemini_response(query, model), with the outcome of the one model call
gemini_response(query, model, outcome) ==
    IF ~model THEN GeminiResult(Str(NoModelReply), NotCalled, 0)
    ELSE IF outcome.kind = "text"
         THEN GeminiResult(Str(Take(strip(outcome.text), MaxChars)), outcome, 1)
         ELSE GeminiResult(Str(ErrorReply), outcome, 1)

-----------------------------------------------------------------------------
(* app.py: main, one run of the script per user interaction *)

qy_hey == <<"H", "e", "y", "!">>
qy_stay == <<"s", "t", "a", "y", "?">>
qy_hifi == <<"h", "i", "-", "f", "i">>

\* what the user can type
Queries == {qy_hey, qy_stay, qy_hifi}

\* vectors and answers the stored artifacts can hold
StoredVectors == {Vec(0, 0), Vec(MaxCoord, 1)}
StoredAnswers == {Str(<<>>), Str(a_one), NaN}

IndexFiles ==
    {MissingIndex} \cup
    {[state |-> "ok", run |-> 0, vectors |-> vs] : vs \in SeqsUpTo(StoredVectors, MaxRows)}

DataFiles ==
    {MissingData,
     [state |-> "truncated", run |-> 0, keys |-> {}, answers |-> <<>>],
     [state |-> "ok", run |-> 0, keys |-> {}, answers |-> <<>>]} \cup
    {[state |-> "ok", run |-> 0, keys |-> DataKeys, answers |-> as] :
        as \in SeqsUpTo(StoredAnswers, MaxRows)}

Msg(role, content) == [role |-> role, content |-> content]

ServeInit ==
    /\ NormIdle
    /\ BuildIdle
    /\ csv_file = MissingFile
    /\ index_faiss \in IndexFiles
    /\ data_pkl \in DataFiles
    /\ resources = Unloaded
    /\ messages = <<>>
    /\ token_count = 0
    /\ last = NoTurn

\* the first run of main(): load_resources() fills the cache and the session
\* state is initialised; there is no user input yet
FirstRun ==
    /\ ~resources.loaded
    /\ \E haveEmbedder \in BOOLEAN, haveModel \in BOOLEAN :
           resources' = load_resources(haveEmbedder, haveModel)
    /\ messages' = <<Msg("assistant", Str(WelcomeText))>>
    /\ token_count' = 0
    /\ UNCHANGED <<normVars, storeVars, buildVars, last>>

UserTurns == Cardinality({i \in DOMAIN messages : messages[i].role = "user"})

\* the turn of main(): kb_response = get_knowledge_response(...);
\* if kb_response: response = kb_response, else response = gemini_response(...)
Respond(q, kb, gm) ==
    LET hit == PyTruthy(kb.ret)
        response == IF hit THEN kb.ret ELSE gm.ret
    IN  [kind |-> "turn", query |-> q, kb |-> kb.ret, encoded |-> kb.encoded,
         searched |-> kb.searched, D |-> kb.D, I |-> kb.I,
         fallback |-> ~hit,
         outcome |-> IF hit THEN NotCalled ELSE gm.outcome,
         model_calls |-> IF hit THEN 0 ELSE gm.calls,
         response |-> response,
         crashed |-> response.t /= "str"]

\* st.session_state.messages after the turn: the user message, then the
\* assistant message unless the run died before appending it
Transcript(turn) ==
    LET withUser == Append(messages, Msg("user", Str(turn.query)))
    IN  IF turn.crashed THEN withUser
        ELSE Append(withUser, Msg("assistant", turn.response))

\* a run of main() with user_input = q: the user message is appended, the
\* response is computed, token_count is updated and the assistant message is
\* appended.  response.split() raises when the response is not a str (a NaN
\* answer), and the run ends there
ChatTurn(q) ==
    /\ resources.loaded
    /\ UserTurns < MaxTurns
    /\ \E enc \in EncodeOutcomes :
         \E I \in SearchPositions(resources, enc) :
           LET kb == get_knowledge_response(q, resources, enc, I)
           IN  \E outcome \in ModelOutcomes :
                 LET turn == Respond(q, kb, gemini_response(q, resources.gemini_model, outcome))
                 IN  /\ last' = turn
                     /\ messages' = Transcript(turn)
                     /\ token_count' = IF turn.crashed THEN token_count
                                       ELSE token_count + WordCount(turn.response.v)
    /\ UNCHANGED <<normVars, storeVars, buildVars, resources>>

ServeNext ==
    \/ FirstRun
    \/ \E q \in Queries : ChatTurn(q)

ServeSpec == ServeInit /\ [][ServeNext]_vars

-----------------------------------------------------------------------------
(* The two answer functions applied on their own, once, to every input they
   can meet *)

\* load_resources() alone
LoadResources ==
    /\ ~resources.loaded
    /\ \E haveEmbedder \in BOOLEAN, haveModel \in BOOLEAN :
           resources' = load_resources(haveEmbedder, haveModel)
    /\ UNCHANGED <<normVars, storeVars, buildVars, messages, token_count, last>>

\* get_knowledge_response(q, resources)
Retrieve(q) ==
    /\ resources.loaded
    /\ last.kind = "none"
    /\ \E enc \in EncodeOutcomes :
         \E I \in SearchPositions(resources, enc) :
           LET kb == get_knowledge_response(q, resources, enc, I)
           IN  last' = [NoTurn EXCEPT !.kind = "retrieve", !.query = q, !.kb = kb.ret,
                                      !.encoded = kb.encoded, !.searched = kb.searched,
                                      !.D = kb.D, !.I = kb.I]
    /\ UNCHANGED <<normVars, storeVars, buildVars, resources, messages, token_count>>

\* gemini_response(q, resources.get('gemini_model'))
Fallback(q) ==
    /\ resources.loaded
    /\ last.kind = "none"
    /\ \E outcome \in ModelOutcomes :
           LET gm == gemini_response(q, resources.gemini_model, outcome)
           IN  last' = [NoTurn EXCEPT !.kind = "fallback", !.query = q, !.fallback = TRUE,
                                      !.outcome = gm.outcome, !.model_calls = gm.calls,
                                      !.response = gm.ret]
    /\ UNCHANGED <<normVars, storeVars, buildVars, resources, messages, token_count>>

AnswerNext ==
    \/ LoadResources
    \/ \E q \in Queries : Retrieve(q)
    \/ \E q \in Queries : Fallback(q)

AnswerSpec == ServeInit /\ [][AnswerNext]_vars

-----------------------------------------------------------------------------
(* Properties *)

IsGreeting(q) == Contains(normalize_text(q), w_greeting)

\* the answer store is loaded, the encoder and the index are there, and the
\* index has one vector per answer
Aligned(res) ==
    /\ DataTruthy(res.data)
    /\ "answers" \in res.data.keys
    /\ res.embedder
    /\ IndexTruthy(res.index)
    /\ Len(res.index.vectors) = Len(res.data.answers)

\* C1 as stated: for a query whose normalisation contains "greeting",
\* get_knowledge_response returns the greeting text in every resource state,
\* the answer store missing or empty included, and the index is not searched.
C1_GreetingInEveryResourceState ==
    (last.kind = "retrieve" /\ IsGreeting(last.query))
        => (last.kb = Str(GreetingText) /\ ~last.searched)

\* C1 amended: for a query whose normalisation contains "greeting",
\* get_knowledge_response returns the greeting text whenever the answer store
\* is loaded and not empty, whatever the index holds and with or without the
\* encoder, and returns None when the answer store is missing or empty; in
\* both cases the encoder is not called and the index is not searched.
C1_GreetingWhenDataLoaded ==
    (last.kind = "retrieve" /\ IsGreeting(last.query))
        => /\ last.kb = (IF DataTruthy(resources.data) THEN Str(GreetingText) ELSE None)
           /\ last.encoded = NotEncoded
           /\ ~last.searched

\* a greeting answered from a loaded store with a non-empty index and no encoder
C1_Witness ==
    /\ last.kind = "retrieve"
    /\ IsGreeting(last.query)
    /\ DataTruthy(resources.data)
    /\ ~resources.embedder
    /\ Len(resources.index.vectors) > 0
    /\ last.kb = Str(GreetingText)

\* C2: for a query that is no greeting, with answer store, encoder and index
\* available and aligned, get_knowledge_response returns the answer at the
\* position of a nearest vector when that squared distance is below 0.7, and
\* None when it is 0.7 or more or when encoding or searching fails.
C2_AnswerIffBelowThreshold ==
    (last.kind = "retrieve" /\ ~IsGreeting(last.query) /\ Aligned(resources))
        => LET vs == resources.index.vectors
               v == last.encoded.v
               near == {i \in DOMAIN vs : \A j \in DOMAIN vs : L2(vs[i], v) <= L2(vs[j], v)}
           IN  IF last.encoded.kind = "vec" /\ \E i \in DOMAIN vs : L2(vs[i], v) < Threshold
               THEN \E i \in near : /\ last.I = i - 1
                                    /\ last.kb = resources.data.answers[i]
               ELSE last.kb = None

\* the second of two stored answers is returned for a vector closer than 0.7
C2_Witness ==
    /\ last.kind = "retrieve"
    /\ ~IsGreeting(last.query)
    /\ Aligned(resources)
    /\ last.encoded.kind = "vec"
    /\ last.D > 0
    /\ last.D < Threshold
    /\ last.I = 1
    /\ last.kb = resources.data.answers[2]
    /\ resources.data.answers[1] /= resources.data.answers[2]

\* a nearest vector at exactly 0.7 is refused
C2_AtThreshold ==
    /\ last.kind = "retrieve"
    /\ Aligned(resources)
    /\ last.encoded.kind = "vec"
    /\ last.D = Threshold
    /\ last.kb = None

\* C3 as stated: when the model call raises, gemini_response returns the string
\* it returns when no model is configured, and the model was called once.
C3_ErrorReplyIsNoModelReply ==
    (last.kind = "fallback" /\ last.outcome = ModelRaises)
        => /\ last.response = gemini_response(last.query, FALSE, NotCalled).ret
           /\ last.model_calls = 1

\* C4 as stated: app.normalize_text is idempotent.
C4_NormalizeIdempotent ==
    (nstage \in {"reserved", "built"}) => norm2 = norm

\* the word w stands in s as a whole word, in any letter case
HasWholeWord(s, w) == \E p \in 0..Len(s) : AltMatches(lower(s), p, w)

\* C5 as stated: an input holding "hello", "hi" or "hey" as a whole word, in
\* any letter case and whatever delimits it, normalises to a text containing
\* "greeting".
C5_GreetingWordsFold ==
    (nstage /= "input" /\ \E w \in {w_hello, w_hi, w_hey} : HasWholeWord(text, w))
        => Contains(norm, w_greeting)

\* C6 as stated: after an aborted build, storage holds no artifact written by
\* that run: no index.faiss of the run beside a missing or older data.pkl.
C6_AbortLeavesNoArtifact ==
    (bpc = "aborted")
        => /\ ~(index_faiss.state = "ok" /\ index_faiss.run = run)
           /\ ~(data_pkl.state /= "missing" /\ data_pkl.run = run)

\* C7: after a build that completes, the stored index has one vector per
\* stored answer and per source row, the vector at position i is the embedding
\* of the normalised question of row i (the empty string for a missing
\* question), and the answer at position i is the answer of row i.
C7_IndexAlignedWithAnswers ==
    (bpc = "done")
        => LET rows == csv_file.rows
           IN  /\ index_faiss.state = "ok"
               /\ data_pkl.state = "ok"
               /\ index_faiss.run = run
               /\ data_pkl.run = run
               /\ Len(index_faiss.vectors) = Len(rows)
               /\ Len(data_pkl.answers) = Len(rows)
               /\ \A i \in DOMAIN rows :
                    /\ index_faiss.vectors[i] =
                         embedder[build_normalize_text(FillNa(rows[i].question))]
                    /\ data_pkl.answers[i] = rows[i].answer

\* a completed build of a table whose first row has no question and whose
\* second row has one
C7_Witness ==
    /\ bpc = "done"
    /\ Len(csv_file.rows) = 2
    /\ csv_file.rows[1].question = NaN
    /\ csv_file.rows[2].question = Str(q_jobs)
    /\ Len(index_faiss.vectors) = 2
    /\ index_faiss.vectors[1] /= index_faiss.vectors[2]

\* C8: whatever the model call does, gemini_response returns at most 300
\* characters.
C8_ReplyAtMost300 ==
    (last.kind = "fallback") => Len(last.response.v) <= MaxChars

\* a model text longer than 300 characters was cut to 300
C8_Witness ==
    /\ last.kind = "fallback"
    /\ last.outcome.kind = "text"
    /\ Len(strip(last.outcome.text)) > MaxChars
    /\ Len(last.response.v) = MaxChars

\* s holds none of the words of alts as a whole word, before or after its
\* punctuation is deleted
HasNoWordOf(s, alts) ==
    \A k \in DOMAIN alts :
        /\ ~HasWholeWord(s, alts[k])
        /\ ~HasWholeWord(RemovePunctuation(s), alts[k])

\* C9 as stated: for a text with no word of the placement and contact groups,
\* build_vector.normalize_text and app.normalize_text give the same result.
C9_BuildFoldsWhatServeFolds ==
    (nstage = "built" /\ HasNoWordOf(text, PlacementAlts) /\ HasNoWordOf(text, ContactAlts))
        => bnorm = norm

\* C10 as stated: a chat turn appends the user message and then one assistant
\* message and leaves the earlier entries alone; the fallback responder runs
\* exactly when the retriever returned None; an answer the retriever returned
\* is the assistant message.
C10_TurnAppendsRetrievedAnswer ==
    [][resources.loaded =>
         LET n == Len(messages)
         IN  /\ Len(messages') = n + 2
             /\ SubSeq(messages', 1, n) = messages
             /\ messages'[n + 1] = Msg("user", Str(last'.query))
             /\ messages'[n + 2].role = "assistant"
             /\ (last'.fallback <=> last'.kb = None)
             /\ (last'.kb /= None => messages'[n + 2].content = last'.kb)]_vars

====
